---- MODULE Spec2Model ----
(***************************************************************************)
(* Orbital Transfer Planner: the Pyodide loader (src/js/pyodide-loader.js), *)
(* the UI controller (src/js/ui-controller.js) and the application glue     *)
(* (src/js/main.js) as one state machine.                                   *)
(*                                                                          *)
(* Every `await` of the code is a point where the event loop may run        *)
(* another handler, so each asynchronous function is cut at its awaits:     *)
(* one action runs the code from one await to the next.                     *)
(***************************************************************************)
EXTENDS Bags, FiniteSets, Integers, Sequences, TLC

VARIABLES
    loader,   \* the PyodideLoader singleton's fields
    proc,     \* where the running load() stands (its locals)
    py,       \* the Pyodide runtime: instance, filesystem, globals, code run
    ui,       \* the UIController singleton's fields
    dom,      \* the page: controls, displays, panels, pending timers
    calls,    \* runPython calls in flight, oldest first
    hist      \* observations: what was called, emitted and settled so far

vars == <<loader, proc, py, ui, dom, calls, hist>>

----------------------------------------------------------------------------
(* Bounds of the model *)

MaxLoads == 2        \* load() calls that get past both guards
MaxCallbacks == 2    \* onReady registrations made besides the application's
MaxFaults == 3       \* awaits the environment lets fail (network, import)
MaxPending == 2      \* runPython calls in flight at once

(* Program constants *)

maxRetries == 3

modules ==
    << "constants.py", "orbital_mechanics.py",
       "numerical_integration.py", "visualization.py" >>

packages == << "numpy", "matplotlib" >>

requiredModules ==
    { "constants.py", "orbital_mechanics.py",
      "numerical_integration.py", "visualization.py" }

AppCallback == 0     \* the callback main.js registers; others are 1, 2, ...

CallbackIds == 0 .. MaxCallbacks

----------------------------------------------------------------------------
(* The state the helpers below transform: the variables as one record *)

St == [l |-> loader, p |-> proc, y |-> py, u |-> ui, d |-> dom, c |-> calls,
       h |-> hist]

Commit(s) ==
    /\ loader' = s.l
    /\ proc' = s.p
    /\ py' = s.y
    /\ ui' = s.u
    /\ dom' = s.d
    /\ calls' = s.c
    /\ hist' = s.h

InitLoader ==
    [ pyodide |-> 0,                 \* null; n > 0 is the n-th instance
      isLoading |-> FALSE,
      isReady |-> FALSE,
      loadingProgress |-> 0,
      onProgressCallbacks |-> << >>,
      onReadyCallbacks |-> << >>,
      loadedModules |-> {},
      failedModules |-> << >> ]

InitProc == [pc |-> "idle", pkg |-> 0, mod |-> 0, attempt |-> 0]

InitPy ==
    [ instances |-> 0,               \* instances loadPyodide has created
      fs |-> {},                     \* files of the newest instance
      micropip |-> FALSE,
      installed |-> << >>,           \* packages, in installation order
      initialised |-> FALSE,         \* initCode has run
      globals |-> [n \in {} |-> 0],  \* names set through globals.set
      executed |-> {} ]              \* code run through runPythonAsync

InitHist ==
    [ appStarted |-> FALSE,
      runs |-> 0,                    \* load() calls past the guards
      faults |-> 0,
      registered |-> {},             \* callbacks handed to onReady
      queuedOnce |-> {},             \* callbacks onReady has queued
      throwers |-> {},               \* registered callbacks that throw when called
      invoked |-> [c \in CallbackIds |-> 0],
      invokedWith |-> [c \in CallbackIds |-> 0],
      progress |-> << >>,            \* stages emitted by the newest run
      steps |-> << >>,               \* loading steps completed by the newest run
      fetches |-> [m \in requiredModules |-> 0],
      fetchAfterOk |-> FALSE,        \* a module was fetched after it succeeded
      fails |-> [m \in requiredModules |-> 0],   \* attempts the environment failed
      modulesRun |-> "none",         \* none | running | resolved | rejected
      run |-> "none",                \* none | pending | resolved | rejected
      runValue |-> 0,
      guarded |-> "none",            \* none | returned | rejected
      guardedValue |-> 0,
      api |-> "none",                \* none | ok | not ready: the last loader call
      calc |-> "none",               \* none | skipped | started | failed | succeeded
      origin |-> "none",             \* what triggered the last calculateTransfer
      shown |-> "",                  \* what it handed to showError, if anything
      solver |-> << >> ]             \* arguments of the last solver calls

----------------------------------------------------------------------------
(* PyodideLoader.updateProgress *)
updateProgress(s, stage, percent) ==
    [s EXCEPT !.l.loadingProgress = percent,
              !.h.progress = Append(@, stage)]

(* One ready callback is called with the pyodide instance *)
InvokeCallback(s, cb) ==
    [s EXCEPT !.h.invoked[cb] = @ + 1,
              !.h.invokedWith[cb] = s.l.pyodide,
              \* main.js: the application's callback only sets a timer
              !.d.readyTimer = @ \/ (cb = AppCallback)]

(* `this.onReadyCallbacks.forEach(cb => cb(this.pyodide))`: an exception of *)
(* a callback ends the forEach and leaves it (pc "thrown")                  *)
RECURSIVE NotifyAll(_, _)
NotifyAll(s, cbs) ==
    IF cbs = << >> THEN s
    ELSE IF Head(cbs) \in s.h.throwers
    THEN [InvokeCallback(s, Head(cbs)) EXCEPT !.p.pc = "thrown"]
    ELSE NotifyAll(InvokeCallback(s, Head(cbs)), Tail(cbs))

(* PyodideLoader.onReady *)
onReady(s, cb) ==
    LET t == [s EXCEPT !.h.registered = @ \cup {cb}]
    IN  IF t.l.isReady
        THEN InvokeCallback(t, cb)
        ELSE [t EXCEPT !.l.onReadyCallbacks = Append(@, cb),
                       !.h.queuedOnce = @ \cup {cb}]

(* The catch block of load() *)
LoadFailed(s) ==
    LET t == [s EXCEPT !.l.isLoading = FALSE]
        u == updateProgress(t, "error", 0)
    IN  [u EXCEPT !.p = InitProc,
                  !.h.run = "rejected"]

(* load() as it would be with the isLoading check inside its try block *)
LoadEntryBusyCheckInTry(s) ==
    IF s.l.isReady
    THEN [s EXCEPT !.h.guarded = "returned",
                   !.h.guardedValue = s.l.pyodide]
    ELSE IF s.l.isLoading
    THEN [LoadFailed(s) EXCEPT !.h.guarded = "rejected"]
    ELSE LET t == [s EXCEPT !.l.isLoading = TRUE,
                            !.h.runs = @ + 1,
                            !.h.run = "pending",
                            !.h.modulesRun = "none",
                            !.h.progress = << >>,
                            !.h.steps = << >>]
             u == updateProgress(t, "loading-pyodide", 10)
         IN  [u EXCEPT !.p.pc = "import"]

(* load() as it would be without its isReady check *)
LoadEntryNoReadyCheck(s) ==
    IF s.l.isLoading
    THEN [s EXCEPT !.h.guarded = "rejected"]
    ELSE LET t == [s EXCEPT !.l.isLoading = TRUE,
                            !.h.runs = @ + 1,
                            !.h.run = "pending",
                            !.h.modulesRun = "none",
                            !.h.progress = << >>,
                            !.h.steps = << >>]
             u == updateProgress(t, "loading-pyodide", 10)
         IN  [u EXCEPT !.p.pc = "import"]

(* load(), from its first line to its first await *)
LoadEntry(s) ==
    IF s.l.isReady
    THEN [s EXCEPT !.h.guarded = "returned",
                   !.h.guardedValue = s.l.pyodide]
    ELSE IF s.l.isLoading
    THEN [s EXCEPT !.h.guarded = "rejected"]
    ELSE LET t == [s EXCEPT !.l.isLoading = TRUE,
                            !.h.runs = @ + 1,
                            !.h.run = "pending",
                            !.h.modulesRun = "none",
                            !.h.progress = << >>,
                            !.h.steps = << >>]
             u == updateProgress(t, "loading-pyodide", 10)
         IN  [u EXCEPT !.p.pc = "import"]

(* The tail of load() once initializeEnvironment has resolved; the forEach *)
(* is inside the try block                                                 *)
LoadReady(s) ==
    LET t == updateProgress(s, "ready", 100)
        u == [t EXCEPT !.l.isReady = TRUE,
                       !.l.isLoading = FALSE,
                       !.h.steps = Append(@, "ready")]
        v == NotifyAll(u, u.l.onReadyCallbacks)
    IN  IF v.p.pc = "thrown"
        THEN LoadFailed(v)
        ELSE [v EXCEPT !.p = InitProc,
                       !.h.run = "resolved",
                       !.h.runValue = v.l.pyodide]

(* loadPythonModules: fetch(mod.path) is called *)
StartFetch(s) ==
    LET m == modules[s.p.mod]
    IN  [s EXCEPT !.p.pc = "fetch",
                  !.h.fetches[m] = @ + 1,
                  !.h.fetchAfterOk = @ \/ (m \in s.l.loadedModules)]

(* loadPythonModules as it would be if it did not throw on failed modules *)
ModulesDoneNoThrow(s) ==
    LET t == updateProgress([s EXCEPT !.h.modulesRun = "resolved"],
                            "modules-loaded", 90)
    IN  [t EXCEPT !.p.pc = "initEnv"]

(* loadPythonModules: after the last module *)
ModulesDone(s) ==
    IF Len(s.l.failedModules) > 0
    THEN LoadFailed([s EXCEPT !.h.modulesRun = "rejected"])
    ELSE LET t == updateProgress([s EXCEPT !.h.modulesRun = "resolved"],
                                 "modules-loaded", 90)
         IN  [t EXCEPT !.p.pc = "initEnv"]

(* loadPythonModules: the head of the for loop over modules *)
EnterModule(s, i) ==
    LET t == updateProgress(s, "loading-modules", 70 + ((i - 1) * 20) \div 4)
    IN  StartFetch([t EXCEPT !.p.mod = i, !.p.attempt = 1])

(* loadPythonModules: the module's attempts are over *)
LeaveModule(s) ==
    IF s.p.mod < Len(modules)
    THEN EnterModule(s, s.p.mod + 1)
    ELSE ModulesDone(s)

(* The retry loop as it would be with `attempt <= this.maxRetries` before *)
(* the backoff: one attempt too many                                      *)
AttemptFailedOffByOne(s) ==
    IF s.p.attempt <= maxRetries
    THEN [s EXCEPT !.p.pc = "sleep"]
    ELSE LET m == modules[s.p.mod]
         IN  LeaveModule([s EXCEPT !.l.failedModules = Append(@, m)])

(* loadPythonModules: an attempt failed (not ok, empty, or an exception) *)
AttemptFailed(s) ==
    IF s.p.attempt < maxRetries
    THEN [s EXCEPT !.p.pc = "sleep"]
    ELSE LET m == modules[s.p.mod]
         IN  LeaveModule([s EXCEPT !.l.failedModules = Append(@, m)])

(* loadPythonModules: FS.writeFile and loadedModules.set *)
ModuleWritten(s) ==
    LET m == modules[s.p.mod]
    IN  LeaveModule([s EXCEPT !.y.fs = @ \cup {m},
                              !.l.loadedModules = @ \cup {m},
                              !.h.steps = Append(@, m)])

(* loadPythonModules, from its first line to its first await *)
EnterLoadPythonModules(s) ==
    EnterModule([s EXCEPT !.l.loadedModules = {},
                          !.l.failedModules = << >>,
                          !.h.fetches = [m \in requiredModules |-> 0],
                          !.h.fetchAfterOk = FALSE,
                          !.h.fails = [m \in requiredModules |-> 0],
                          !.h.modulesRun = "running"], 1)

(* installPackages as it would be without `await` before micropip.install *)
EnterPackageNotAwaited(s, i) ==
    LET t == updateProgress(s, "installing-packages",
                            30 + ((i - 1) * 30) \div Len(packages))
    IN  EnterLoadPythonModules(
            updateProgress([t EXCEPT !.p.pkg = Len(packages)],
                           "packages-installed", 70))

(* installPackages: the head of the for loop over packages *)
EnterPackage(s, i) ==
    LET t == updateProgress(s, "installing-packages",
                            30 + ((i - 1) * 30) \div Len(packages))
    IN  [t EXCEPT !.p.pc = "install", !.p.pkg = i]

----------------------------------------------------------------------------
(* Numbers.  A JavaScript or Python float is kept as a decimal m * 10^e, or  *)
(* NaN.  Values of solver results, which the model does not evaluate, are    *)
(* terms: the name of the quantity and the arguments it was computed from.   *)

Dec(m, e) == [nan |-> FALSE, m |-> m, e |-> e]

NaN == [nan |-> TRUE, m |-> 0, e |-> 0]

Mul(a, b) == IF a.nan \/ b.nan THEN NaN ELSE Dec(a.m * b.m, a.e + b.e)

RECURSIVE Pow10(_)
Pow10(n) == IF n <= 0 THEN 1 ELSE 10 * Pow10(n - 1)

(* a <= b for non-negative decimals; false when either is NaN *)
Leq(a, b) ==
    /\ ~a.nan
    /\ ~b.nan
    /\ IF a.e <= b.e
       THEN (a.m + Pow10(b.e - a.e) - 1) \div Pow10(b.e - a.e) <= b.m
       ELSE a.m <= b.m \div Pow10(a.e - b.e)

MaxOf(a, b) == IF Leq(a, b) THEN b ELSE a

(* ToNumber of a plain object, as in `config.rb * 2` *)
ObjectToNumber(o) == NaN

Term(name, args) == [nan |-> \E i \in 1 .. Len(args) : args[i].nan,
                     fn |-> name, args |-> args]

----------------------------------------------------------------------------
(* The Python side.  constants.py, orbital_mechanics.py and visualization.py *)
(* are fetched at run time; what they compute is taken from the prose        *)
(* specification.                                                            *)

AU_KM == Dec(149598, 3)              \* 149,597,870.7 km, to six digits

SupportedBodies == {"earth", "sun"}

get_central_body(name) ==
    IF name = "earth"
    THEN [name |-> "earth", mu |-> Dec(398600, 0), radius |-> Dec(6371, 0)]
    ELSE [name |-> "sun", mu |-> Dec(132712, 6), radius |-> Dec(696, 3)]

hohmann_transfer(r1, r2, mu) ==
    [ dv1 |-> Term("hohmann.dv1", <<r1, r2, mu>>),
      dv2 |-> Term("hohmann.dv2", <<r1, r2, mu>>),
      dv_total |-> Term("hohmann.dv_total", <<r1, r2, mu>>),
      tof |-> Term("hohmann.tof", <<r1, r2, mu>>) ]

(* InvalidGeometryError: the intermediate apoapsis is not outside both orbits *)
bielliptic_fails(r1, r2, rb) == Leq(rb, MaxOf(r1, r2))

bielliptic_transfer(r1, r2, rb, mu) ==
    [ dv1 |-> Term("bielliptic.dv1", <<r1, r2, rb, mu>>),
      dv2 |-> Term("bielliptic.dv2", <<r1, r2, rb, mu>>),
      dv3 |-> Term("bielliptic.dv3", <<r1, r2, rb, mu>>),
      dv_total |-> Term("bielliptic.dv_total", <<r1, r2, rb, mu>>),
      tof |-> Term("bielliptic.tof", <<r1, r2, rb, mu>>) ]

(* json.dumps writes a NaN as the token NaN, which is not JSON *)
json_dumps(obj) ==
    [ obj |-> obj,
      nonfinite |->
          \/ \E i \in 1 .. Len(obj.hohmann) :
                \E f \in DOMAIN obj.hohmann[i] : obj.hohmann[i][f].nan
          \/ \E i \in 1 .. Len(obj.bielliptic) :
                \E f \in DOMAIN obj.bielliptic[i] : obj.bielliptic[i][f].nan ]

(* The conversion as it would be if it tested for 'Sun' *)
ToKmOtherSpelling(current_body, r) ==
    IF current_body = "Sun" THEN Mul(r, AU_KM) ELSE r

(* `r1_km = r1 * AU_KM` for the Sun, `r1_km = r1` otherwise *)
ToKm(current_body, r) == IF current_body = "sun" THEN Mul(r, AU_KM) ELSE r

(* The statements inside the script's try block, run on the globals g: the   *)
(* solver calls made, and the string handed to json.dumps                    *)
ScriptTry(g) ==
    IF g.current_body \notin SupportedBodies
    THEN [ solver |-> << >>,
           dumped |-> json_dumps([error |-> <<"UnknownBodyError">>,
                                  hohmann |-> << >>, bielliptic |-> << >>,
                                  plot |-> "", body |-> ""]) ]
    ELSE
    LET body == get_central_body(g.current_body)
        r1_km == ToKm(g.current_body, g.r1)
        r2_km == ToKm(g.current_body, g.r2)
        rb_km == ToKm(g.current_body, g.rb)
        h == hohmann_transfer(r1_km, r2_km, body.mu)
        failed == bielliptic_fails(r1_km, r2_km, rb_km)
        b == bielliptic_transfer(r1_km, r2_km, rb_km, body.mu)
        result ==
            [ error |-> << >>,
              hohmann |-> << [ dv1 |-> h.dv1, dv2 |-> h.dv2,
                               dv_total |-> h.dv_total,
                               tof_hours |-> Term("div3600", <<h.tof>>),
                               tof_days |-> Term("div86400", <<h.tof>>) ] >>,
              bielliptic |->
                  IF failed THEN << >>
                  ELSE << [ dv1 |-> b.dv1, dv2 |-> b.dv2, dv3 |-> b.dv3,
                            dv_total |-> b.dv_total,
                            tof_days |-> Term("div86400", <<b.tof>>) ] >>,
              plot |-> "plot_base64",
              body |-> body.name ]
    IN  [ solver |-> << [ current_body |-> g.current_body,
                          given |-> [r1 |-> g.r1, r2 |-> g.r2, rb |-> g.rb],
                          r1 |-> r1_km, r2 |-> r2_km, rb |-> rb_km,
                          mu |-> body.mu, bielliptic_failed |-> failed ] >>,
          dumped |-> json_dumps(result) ]

(* The script's top-level statements.  runPythonAsync gives the value of the *)
(* last one when it is an expression statement, and None otherwise; both     *)
(* json.dumps calls are expression statements inside the try statement.      *)
ScriptStatements == << "import", "import", "import", "try" >>

(* What runPythonAsync(pythonCode) resolves with: << >> is undefined *)
ScriptValue(g) ==
    IF ScriptStatements[Len(ScriptStatements)] = "expr"
    THEN << ScriptTry(g).dumped >>
    ELSE << >>

----------------------------------------------------------------------------
(* The UI controller *)

InitUi ==
    [ currentBody |-> "earth",
      transferType |-> "hohmann",
      r1 |-> Dec(6571, 0),
      r2 |-> Dec(42164, 0),
      rb |-> Dec(80000, 0),
      results |-> << >> ]            \* null

InitDom ==
    [ controlsDisabled |-> FALSE,
      readyTimer |-> FALSE,          \* the ready callback's setTimeout is pending
      bodySelect |-> "earth",
      sliderBody |-> "earth",        \* the body whose ranges the sliders have
      rbContainer |-> "markup",      \* style.display of #rb-container
      display |-> << >>,             \* the five result displays, once written
      infoPanel |-> [kind |-> "initial", text |-> ""] ]

BodyOptions == {"earth", "sun"}

(* values of #central-body other than these *)
OtherBodies == {"moon"}

TransferTypes == {"hohmann", "bielliptic", "both"}

bodyConfigs(body) ==
    IF body = "sun"
    THEN [ r1 |-> [min |-> Dec(300, -3), max |-> Dec(2000, -3), step |-> Dec(10, -3)],
           r2 |-> [min |-> Dec(500, -3), max |-> Dec(10000, -3), step |-> Dec(100, -3)],
           rb |-> [min |-> Dec(2000, -3), max |-> Dec(20000, -3), step |-> Dec(500, -3)],
           unit |-> "AU",
           r1Default |-> Dec(1000, -3),
           r2Default |-> Dec(1524, -3) ]
    ELSE [ r1 |-> [min |-> Dec(6671, 0), max |-> Dec(50000, 0), step |-> Dec(100, 0)],
           r2 |-> [min |-> Dec(6671, 0), max |-> Dec(500000, 0), step |-> Dec(1000, 0)],
           rb |-> [min |-> Dec(70000, 0), max |-> Dec(1000000, 0), step |-> Dec(5000, 0)],
           unit |-> "km",
           r1Default |-> Dec(6571, 0),
           r2Default |-> Dec(42164, 0) ]

(* `bodyConfigs[this.currentBody] || bodyConfigs.earth` *)
ConfigKey(body) == IF body \in {"earth", "sun"} THEN body ELSE "earth"

presets ==
    [ leo_geo |-> [r1 |-> Dec(6571, 0), r2 |-> Dec(42164, 0), body |-> "earth"],
      leo_moon |-> [r1 |-> Dec(6571, 0), r2 |-> Dec(384400, 0), body |-> "earth"],
      earth_mars |-> [r1 |-> Dec(1000, -3), r2 |-> Dec(1524, -3), body |-> "sun"],
      earth_jupiter |-> [r1 |-> Dec(1000, -3), r2 |-> Dec(5204, -3), body |-> "sun"] ]

(* Positions the user can drag a slider to: a few steps of each range *)
SliderValues(body, slider) ==
    IF body = "sun"
    THEN CASE slider = "r1" -> {Dec(1200, -3)}
           [] slider = "r2" -> {Dec(500, -3), Dec(5000, -3)}
           [] OTHER -> {Dec(2000, -3), Dec(10000, -3)}
    ELSE CASE slider = "r1" -> {Dec(7071, 0)}
           [] slider = "r2" -> {Dec(6671, 0), Dec(100671, 0)}
           [] OTHER -> {Dec(70000, 0), Dec(200000, 0)}

(* updateSliderRanges as it would be if it kept this.r1 and this.r2 *)
updateSliderRangesKeepRadii(s) ==
    LET config == bodyConfigs(ConfigKey(s.u.currentBody))
    IN  [s EXCEPT !.d.sliderBody = ConfigKey(s.u.currentBody),
                  !.u.rb = Mul(ObjectToNumber(config.rb), Dec(2, 0))]

(* UIController.updateSliderRanges *)
updateSliderRanges(s) ==
    LET config == bodyConfigs(ConfigKey(s.u.currentBody))
    IN  [s EXCEPT !.d.sliderBody = ConfigKey(s.u.currentBody),
                  !.u.r1 = config.r1Default,
                  !.u.r2 = config.r2Default,
                  !.u.rb = Mul(ObjectToNumber(config.rb), Dec(2, 0))]

(* UIController.showError *)
showError(s, message) ==
    [s EXCEPT !.d.infoPanel = [kind |-> "error", text |-> message],
              !.h.shown = message]

(* PyodideLoader.areModulesLoaded *)
areModulesLoaded(l) == \A m \in requiredModules : m \in l.loadedModules

(* setGlobal as it would be without its isReady check *)
setGlobalUnguarded(s, name, value) ==
    [s EXCEPT !.h.api = "ok",
              !.y.globals = [n \in DOMAIN @ \cup {name} |->
                                 IF n = name THEN value ELSE @[n]]]

(* PyodideLoader.setGlobal *)
setGlobal(s, name, value) ==
    IF ~s.l.isReady
    THEN [s EXCEPT !.h.api = "not ready"]
    ELSE [s EXCEPT !.h.api = "ok",
                   !.y.globals = [n \in DOMAIN @ \cup {name} |->
                                      IF n = name THEN value ELSE @[n]]]

(* PyodideLoader.getGlobal *)
getGlobal(s, name) ==
    IF ~s.l.isReady
    THEN [s EXCEPT !.h.api = "not ready"]
    ELSE [s EXCEPT !.h.api = "ok"]

(* PyodideLoader.runPython, up to its await: call is what the caller keeps *)
runPython(s, call) ==
    IF ~s.l.isReady
    THEN [s EXCEPT !.h.api = "not ready"]
    ELSE [s EXCEPT !.h.api = "ok",
                   !.c = Append(@, call)]

(* The parameters a calculateTransfer invocation starts from *)
Params(u) ==
    [ current_body |-> u.currentBody, transfer_type |-> u.transferType,
      r1 |-> u.r1, r2 |-> u.r2, rb |-> u.rb ]

(* calculateTransfer as it would be without its isReady guard *)
calculateTransferNoReadyGuard(s, origin) ==
    LET t == [s EXCEPT !.h.shown = "", !.h.origin = origin]
    IN
    IF ~areModulesLoaded(t.l)
    THEN showError([t EXCEPT !.h.calc = "failed"], "Python modules failed to load")
    ELSE
    LET g1 == setGlobal(t, "current_body", t.u.currentBody)
        g2 == setGlobal(g1, "transfer_type", t.u.transferType)
        g3 == setGlobal(g2, "r1", t.u.r1)
        g4 == setGlobal(g3, "r2", t.u.r2)
        g5 == setGlobal(g4, "rb", t.u.rb)
        g6 == runPython(g5, [ kind |-> "calc", phase |-> "called",
                              params |-> Params(t.u),
                              used |-> << >>, value |-> << >> ])
    IN  IF g6.h.api = "not ready"
        THEN showError([g6 EXCEPT !.h.calc = "failed"], "Calculation failed")
        ELSE [g6 EXCEPT !.h.calc = "started"]

(* UIController.calculateTransfer, up to `await pyodideLoader.runPython` *)
calculateTransfer(s, origin) ==
    LET t == [s EXCEPT !.h.shown = "", !.h.origin = origin]
    IN
    IF ~t.l.isReady
    THEN [t EXCEPT !.h.calc = "skipped"]
    ELSE IF ~areModulesLoaded(t.l)
    THEN showError([t EXCEPT !.h.calc = "failed"], "Python modules failed to load")
    ELSE
    LET g1 == setGlobal(t, "current_body", t.u.currentBody)
        g2 == setGlobal(g1, "transfer_type", t.u.transferType)
        g3 == setGlobal(g2, "r1", t.u.r1)
        g4 == setGlobal(g3, "r2", t.u.r2)
        g5 == setGlobal(g4, "rb", t.u.rb)
        g6 == runPython(g5, [ kind |-> "calc", phase |-> "called",
                              params |-> Params(t.u),
                              used |-> << >>, value |-> << >> ])
    IN  IF g6.h.api = "not ready"
        THEN showError([g6 EXCEPT !.h.calc = "failed"], "Calculation failed")
        ELSE [g6 EXCEPT !.h.calc = "started"]

(* JavaScript numbers as the info panel computes with them: a fraction    *)
(* n/d with d > 0, NaN, or an infinity with its sign in n                 *)
Num(n, d) == [k |-> "num", n |-> n, d |-> d]

JsNaN == [k |-> "nan", n |-> 0, d |-> 1]

JsInfinity(sign) == [k |-> "inf", n |-> sign, d |-> 1]

(* a - b for finite a, b *)
JsSub(a, b) ==
    IF a.k # "num" \/ b.k # "num" THEN JsNaN
    ELSE Num(a.n * b.d - b.n * a.d, a.d * b.d)

(* a / b for finite a, b: x/0 is an infinity, 0/0 is NaN *)
JsDiv(a, b) ==
    IF a.k # "num" \/ b.k # "num" THEN JsNaN
    ELSE IF b.n = 0
    THEN IF a.n = 0 THEN JsNaN ELSE JsInfinity(IF a.n > 0 THEN 1 ELSE -1)
    ELSE IF b.n > 0 THEN Num(a.n * b.d, a.d * b.n)
    ELSE Num(-(a.n * b.d), a.d * (-b.n))

(* a * c for a positive integer c *)
JsTimes(a, c) ==
    IF a.k = "num" THEN Num(a.n * c, a.d) ELSE a

(* a > 0: false for NaN *)
JsGt0(a) == a.k # "nan" /\ a.n > 0

(* `(h.dv_total - b.dv_total) / h.dv_total * 100`; a solver term is not    *)
(* evaluated                                                               *)
Savings(hTotal, bTotal) ==
    IF "k" \in DOMAIN hTotal /\ "k" \in DOMAIN bTotal
    THEN JsTimes(JsDiv(JsSub(hTotal, bTotal), hTotal), 100)
    ELSE Term("savings", <<hTotal, bTotal>>)

(* The label as it would be with `savings >= 0` *)
SavingsLabelOrEqual(savings) ==
    IF "k" \notin DOMAIN savings THEN "unevaluated"
    ELSE IF savings.k # "nan" /\ savings.n >= 0 THEN "savings" ELSE "penalty"

(* `savings > 0 ? 'savings' : 'penalty'`, and the tip that goes with it *)
SavingsLabel(savings) ==
    IF "k" \notin DOMAIN savings THEN "unevaluated"
    ELSE IF JsGt0(savings) THEN "savings" ELSE "penalty"

(* UIController.updateInfoPanel *)
updateInfoPanel(s) ==
    IF s.u.results = << >> THEN s
    ELSE
    LET h == s.u.results[1].hohmann[1]
        b == s.u.results[1].bielliptic
        type == s.u.transferType
    IN  [s EXCEPT !.d.infoPanel =
            [ kind |-> "info",
              text |-> "",
              body |-> s.u.results[1].body,
              r1 |-> s.u.r1, r2 |-> s.u.r2,
              hohmann |-> IF type \in {"hohmann", "both"} THEN <<h>> ELSE << >>,
              bielliptic |-> IF b # << >> /\ type \in {"bielliptic", "both"}
                             THEN << [ result |-> b[1], rb |-> s.u.rb,
                                       savings |->
                                           Savings(h.dv_total, b[1].dv_total),
                                       label |-> SavingsLabel(
                                           Savings(h.dv_total, b[1].dv_total)) ] >>
                             ELSE << >> ]]

(* UIController.updateResults *)
updateResults(s) ==
    IF s.u.results = << >> THEN s
    ELSE
    LET h == s.u.results[1].hohmann[1]
        b == s.u.results[1].bielliptic
        asB == b # << >> /\ s.u.transferType = "bielliptic"
        old == s.d.display
        t == [s EXCEPT !.d.display =
                << [ dv1 |-> h.dv1,
                     dv2 |-> h.dv2,
                     dv3 |-> IF b # << >> THEN <<b[1].dv3>>
                             ELSE IF old = << >> THEN << >> ELSE old[1].dv3,
                     dv3Shown |-> b # << >>,
                     dvTotal |-> IF asB THEN b[1].dv_total ELSE h.dv_total,
                     tof |-> IF asB THEN b[1].tof_days ELSE h.tof_days ] >>]
    IN  updateInfoPanel(t)

(* UIController.calculateTransfer, from the await of runPython to its end *)
calculateTransferResumeAssignFirst(s, call) ==
    LET jsonResult == call.value
    IN
    IF call.phase = "rejected" \/ jsonResult = << >>
    THEN showError([s EXCEPT !.h.calc = "failed"], "Calculation failed")
    ELSE IF jsonResult[1].nonfinite
    THEN showError([s EXCEPT !.h.calc = "failed"],
                   "Failed to parse calculation results")
    ELSE IF jsonResult[1].obj.error # << >>
    THEN showError([s EXCEPT !.u.results = << jsonResult[1].obj >>,
                             !.h.calc = "failed"], "Calculation error")
    ELSE updateResults([s EXCEPT !.u.results = << jsonResult[1].obj >>,
                                 !.h.calc = "succeeded"])

calculateTransferResume(s, call) ==
    LET jsonResult == call.value
    IN
    IF call.phase = "rejected"
    THEN \* the await throws, which the outer catch reports
         showError([s EXCEPT !.h.calc = "failed"], "Calculation failed")
    ELSE IF jsonResult = << >>
    THEN \* JSON.parse(undefined) throws; the handler's jsonResult.substring
         \* throws in turn, which the outer catch reports
         showError([s EXCEPT !.h.calc = "failed"], "Calculation failed")
    ELSE IF jsonResult[1].nonfinite
    THEN showError([s EXCEPT !.h.calc = "failed"],
                   "Failed to parse calculation results")
    ELSE IF jsonResult[1].obj.error # << >>
    THEN showError([s EXCEPT !.h.calc = "failed"], "Calculation error")
    ELSE updateResults([s EXCEPT !.u.results = << jsonResult[1].obj >>,
                                 !.h.calc = "succeeded"])

(* main.js enableUI *)
enableUI(s) == [s EXCEPT !.d.controlsDisabled = FALSE]

----------------------------------------------------------------------------
(* The application and its user *)

(* UIController.updateUIBasedOnTransferType: #rb-container, which holds   *)
(* the rb slider, is shown for 'bielliptic' and 'both' only                *)
updateUIBasedOnTransferType(s) ==
    [s EXCEPT !.d.rbContainer =
        IF s.u.transferType \in {"bielliptic", "both"} THEN "block" ELSE "none"]

(* main.js initializeApp, up to the await of load() *)
InitializeApp ==
    /\ ~hist.appStarted
    /\ LET s0 == [St EXCEPT !.h.appStarted = TRUE,
                            !.l.onProgressCallbacks = Append(@, "loadingScreen")]
           s1 == onReady(s0, AppCallback)
           s2 == updateUIBasedOnTransferType(updateSliderRanges(s1))
           s3 == [s2 EXCEPT !.d.controlsDisabled = TRUE]
       IN  Commit(LoadEntry(s3))

(* main.js: the ready callback's timer fires *)
ReadyTimerFired ==
    /\ dom.readyTimer
    /\ Len(calls) < MaxPending
    /\ LET s0 == enableUI([St EXCEPT !.d.readyTimer = FALSE])
       IN  Commit(calculateTransfer(s0, "ready"))

CanUse == hist.appStarted /\ ~dom.controlsDisabled /\ Len(calls) < MaxPending

(* change on #central-body *)
BodyChange ==
    /\ CanUse
    /\ \E b \in BodyOptions :
          LET s0 == [St EXCEPT !.u.currentBody = b, !.d.bodySelect = b]
          IN  Commit(calculateTransfer(updateSliderRanges(s0), "body"))

(* change on #central-body on a page whose select offers a body that       *)
(* bodyConfigs and the registry do not know                                *)
OtherBodyChange ==
    /\ CanUse
    /\ \E b \in OtherBodies :
          LET s0 == [St EXCEPT !.u.currentBody = b, !.d.bodySelect = b]
          IN  Commit(calculateTransfer(updateSliderRanges(s0), "body"))

(* change on #transfer-type *)
TransferTypeChange ==
    /\ CanUse
    /\ \E t \in TransferTypes :
          LET s0 == updateUIBasedOnTransferType([St EXCEPT !.u.transferType = t])
          IN  Commit(calculateTransfer(s0, "type"))

(* input on #r1-slider *)
R1Input ==
    /\ CanUse
    /\ \E v \in SliderValues(dom.sliderBody, "r1") :
          Commit(calculateTransfer([St EXCEPT !.u.r1 = v], "r1"))

(* input on #r2-slider *)
R2Input ==
    /\ CanUse
    /\ \E v \in SliderValues(dom.sliderBody, "r2") :
          Commit(calculateTransfer([St EXCEPT !.u.r2 = v], "r2"))

(* input on #rb-slider *)
RbInput ==
    /\ CanUse
    /\ dom.rbContainer # "none"
    /\ \E v \in SliderValues(dom.sliderBody, "rb") :
          LET s0 == [St EXCEPT !.u.rb = v]
          IN  IF ui.transferType \in {"bielliptic", "both"}
              THEN Commit(calculateTransfer(s0, "rb"))
              ELSE Commit(s0)

(* click on #calculate-btn *)
CalculateClick ==
    /\ CanUse
    /\ Commit(calculateTransfer(St, "button"))

(* main.js initializePresets: click on a preset button *)
PresetClick ==
    /\ CanUse
    /\ \E id \in DOMAIN presets :
          LET config == presets[id]
              s0 == [St EXCEPT !.u.currentBody = config.body,
                               !.u.r1 = config.r1,
                               !.u.r2 = config.r2,
                               !.d.bodySelect = config.body]
          IN  Commit(calculateTransfer(updateSliderRanges(s0), id))

(* main.js initializeKeyboardShortcuts: Ctrl/Cmd + Enter *)
ShortcutKey ==
    /\ hist.appStarted
    /\ Len(calls) < MaxPending
    /\ Commit(calculateTransfer(St, "shortcut"))

(* Pyodide runs the code of the oldest call it has not run yet *)
PythonRuns ==
    \E i \in 1 .. Len(calls) :
       /\ calls[i].phase = "called"
       /\ \A j \in 1 .. i - 1 : calls[j].phase = "ran"
       /\ IF calls[i].kind = "calc"
          THEN Commit([St EXCEPT !.c[i].phase = "ran",
                                 !.c[i].used = << py.globals >>,
                                 !.c[i].value = ScriptValue(py.globals),
                                 !.y.executed = @ \cup {"calc"},
                                 !.h.solver = ScriptTry(py.globals).solver])
          ELSE Commit([St EXCEPT !.c[i].phase = "ran",
                                 !.y.executed = @ \cup {"code"}])

(* The await of runPython resumes in the oldest call *)
RunPythonSettled ==
    /\ Len(calls) > 0
    /\ calls[1].phase \in {"ran", "rejected"}
    /\ LET call == calls[1]
           s0 == [St EXCEPT !.c = Tail(@)]
       IN  IF call.kind = "calc"
           THEN Commit(calculateTransferResume([s0 EXCEPT !.h.shown = ""], call))
           ELSE Commit(s0)

----------------------------------------------------------------------------
(* Other users of the loader's interface *)

(* A further load() call *)
Load ==
    /\ hist.appStarted
    /\ loader.isReady \/ loader.isLoading \/ hist.runs < MaxLoads
    /\ Commit(LoadEntry(St))

(* A further onReady(callback) call; the callback returns, or it throws *)
OnReady ==
    /\ hist.appStarted
    /\ \E cb \in (CallbackIds \ {AppCallback}) \ hist.registered :
          /\ \A c \in (CallbackIds \ {AppCallback}) \ hist.registered : cb <= c
          /\ \E throws \in BOOLEAN :
                Commit(onReady([St EXCEPT !.h.throwers =
                                   IF throws THEN @ \cup {cb} ELSE @], cb))

NoCall == [ kind |-> "code", phase |-> "called",
            params |-> Params(InitUi), used |-> << >>, value |-> << >> ]

(* runPython(code) *)
RunPython ==
    /\ hist.appStarted
    /\ Len(calls) < MaxPending
    /\ Commit(runPython(St, NoCall))

(* getGlobal(name) *)
GetGlobal ==
    /\ hist.appStarted
    /\ Commit(getGlobal(St, "probe"))

(* setGlobal(name, value) *)
SetGlobal ==
    /\ hist.appStarted
    /\ Commit(setGlobal(St, "probe", Dec(1, 0)))

----------------------------------------------------------------------------
(* What the environment answers to the awaits of load() *)

Fault(s) == [s EXCEPT !.h.faults = @ + 1]

(* The environment fails an attempt to load the module at hand *)
FailedAttempt(s) == [Fault(s) EXCEPT !.h.fails[modules[s.p.mod]] = @ + 1]

MayFail == hist.faults < MaxFaults

(* await import(pyodide.mjs) *)
ImportResolved ==
    /\ proc.pc = "import"
    /\ Commit([St EXCEPT !.p.pc = "loadPyodide"])

ImportRejected ==
    /\ proc.pc = "import"
    /\ MayFail
    /\ Commit(LoadFailed(Fault(St)))

(* await loadPyodide(...) *)
LoadPyodideResolved ==
    /\ proc.pc = "loadPyodide"
    /\ LET n == py.instances + 1
           t == [St EXCEPT !.l.pyodide = n,
                           !.y = [InitPy EXCEPT !.instances = n],
                           !.h.steps = Append(@, "pyodide")]
           u == updateProgress(t, "pyodide-loaded", 30)
       IN  Commit([u EXCEPT !.p.pc = "loadPackage"])

LoadPyodideRejected ==
    /\ proc.pc = "loadPyodide"
    /\ MayFail
    /\ Commit(LoadFailed(Fault(St)))

(* installPackages: await loadPackage('micropip') *)
LoadPackageResolved ==
    /\ proc.pc = "loadPackage"
    /\ Commit(EnterPackage([St EXCEPT !.y.micropip = TRUE], 1))

LoadPackageRejected ==
    /\ proc.pc = "loadPackage"
    /\ MayFail
    /\ Commit(LoadFailed(Fault(St)))

(* installPackages: await micropip.install(pkg) *)
InstallResolved ==
    /\ proc.pc = "install"
    /\ LET t == [St EXCEPT !.y.installed = Append(@, packages[proc.pkg]),
                           !.h.steps = Append(@, packages[proc.pkg])]
       IN  IF proc.pkg < Len(packages)
           THEN Commit(EnterPackage(t, proc.pkg + 1))
           ELSE Commit(EnterLoadPythonModules(
                    updateProgress(t, "packages-installed", 70)))

InstallRejected ==
    /\ proc.pc = "install"
    /\ MayFail
    /\ Commit(LoadFailed(Fault(St)))

(* loadPythonModules: await fetch(mod.path) gives a response that is ok *)
FetchResolved ==
    /\ proc.pc = "fetch"
    /\ Commit([St EXCEPT !.p.pc = "text"])

(* ... gives a response that is not ok, or throws *)
FetchFailed ==
    /\ proc.pc = "fetch"
    /\ MayFail
    /\ Commit(AttemptFailed(FailedAttempt(St)))

(* loadPythonModules: await response.text() gives code, which is written *)
TextResolved ==
    /\ proc.pc = "text"
    /\ Commit(ModuleWritten(St))

(* ... gives an empty text, or text() or FS.writeFile throws *)
TextFailed ==
    /\ proc.pc = "text"
    /\ MayFail
    /\ Commit(AttemptFailed(FailedAttempt(St)))

(* loadPythonModules: the backoff timer fires and the loop runs attempt++ *)
BackoffElapsed ==
    /\ proc.pc = "sleep"
    /\ Commit(StartFetch([St EXCEPT !.p.attempt = @ + 1]))

(* initializeEnvironment: await runPythonAsync(initCode) *)
InitEnvResolved ==
    /\ proc.pc = "initEnv"
    /\ Commit(LoadReady([St EXCEPT !.y.initialised = TRUE,
                                   !.y.executed = @ \cup {"initCode"},
                                   !.h.steps = Append(@, "environment")]))

InitEnvRejected ==
    /\ proc.pc = "initEnv"
    /\ MayFail
    /\ Commit(LoadFailed(Fault([St EXCEPT !.y.executed = @ \cup {"initCode"}])))

----------------------------------------------------------------------------
Init ==
    /\ loader = InitLoader
    /\ proc = InitProc
    /\ py = InitPy
    /\ ui = InitUi
    /\ dom = InitDom
    /\ calls = << >>
    /\ hist = InitHist

(* The application in the hands of its user, every await of load() resolving *)
Next ==
    \/ InitializeApp
    \/ ImportResolved
    \/ LoadPyodideResolved
    \/ LoadPackageResolved
    \/ InstallResolved
    \/ FetchResolved
    \/ TextResolved
    \/ InitEnvResolved
    \/ ReadyTimerFired
    \/ BodyChange
    \/ TransferTypeChange
    \/ R1Input
    \/ R2Input
    \/ RbInput
    \/ CalculateClick
    \/ PresetClick
    \/ ShortcutKey
    \/ PythonRuns
    \/ RunPythonSettled

Spec == Init /\ [][Next]_vars

(* updateResults and updateInfoPanel as functions of the controller's     *)
(* fields: results holds totals drawn from DvTotals, in any transfer type *)
DvTotals == {Num(0, 1), Num(1, 1), Num(2, 1), Num(3, 1), Num(7, 2)}

ResultWith(hTotal, bTotals) ==
    [ error |-> << >>,
      hohmann |-> << [ dv1 |-> hTotal, dv2 |-> Num(0, 1), dv_total |-> hTotal,
                       tof_hours |-> Num(24, 1), tof_days |-> Num(1, 1) ] >>,
      bielliptic |-> [i \in 1 .. Len(bTotals) |->
                        [ dv1 |-> bTotals[i], dv2 |-> Num(0, 1),
                          dv3 |-> Num(0, 1), dv_total |-> bTotals[i],
                          tof_days |-> Num(2, 1) ]],
      plot |-> "plot_base64",
      body |-> "earth" ]

PanelInit ==
    /\ loader = InitLoader
    /\ proc = InitProc
    /\ py = InitPy
    /\ \E type \in TransferTypes, hTotal \in DvTotals,
          bTotals \in {<< >>} \cup {<<x>> : x \in DvTotals} :
          ui = [InitUi EXCEPT !.transferType = type,
                              !.results = << ResultWith(hTotal, bTotals) >>]
    /\ dom = InitDom
    /\ calls = << >>
    /\ hist = InitHist

(* `this.updateResults()` *)
UpdateResults ==
    /\ dom.display = << >>
    /\ Commit(updateResults(St))

PanelNext == UpdateResults

PanelSpec == PanelInit /\ [][PanelNext]_vars

(* The Transfer Solver in exact arithmetic.  A quantity is a fraction      *)
(* <<n, d>> in lowest terms with d > 0; <<1, 0>> stands for a raised        *)
(* ZeroDivisionError and <<-1, 0>> for a raised ValueError (square root of  *)
(* a negative number).  Square roots are kept by their radicand.            *)
RECURSIVE GCD(_, _)
GCD(a, b) == IF b = 0 THEN a ELSE GCD(b, a % b)

Abs(n) == IF n < 0 THEN -n ELSE n

ZeroDivisionError == <<1, 0>>

ValueError == <<-1, 0>>

Raised(x) == x[2] = 0

Q(n, d) ==
    IF d = 0 THEN ZeroDivisionError
    ELSE LET g == GCD(Abs(n), Abs(d))
             sign == IF d < 0 THEN -1 ELSE 1
         IN  <<sign * (n \div g), Abs(d) \div g>>

QAdd(x, y) ==
    IF Raised(x) THEN x ELSE IF Raised(y) THEN y
    ELSE Q(x[1] * y[2] + y[1] * x[2], x[2] * y[2])

QSub(x, y) ==
    IF Raised(x) THEN x ELSE IF Raised(y) THEN y
    ELSE Q(x[1] * y[2] - y[1] * x[2], x[2] * y[2])

QMul(x, y) ==
    IF Raised(x) THEN x ELSE IF Raised(y) THEN y
    ELSE Q(x[1] * y[1], x[2] * y[2])

QDiv(x, y) ==
    IF Raised(x) THEN x ELSE IF Raised(y) THEN y
    ELSE Q(x[1] * y[2], x[2] * y[1])

(* sqrt(x): its radicand, or the error raised *)
Sqrt(x) ==
    IF Raised(x) THEN x ELSE IF x[1] < 0 THEN ValueError ELSE x

(* |sqrt(x) - sqrt(y)|, kept as the set of the two radicands: it is 0     *)
(* exactly when the radicands are equal                                    *)
AbsDiff(x, y) == [absdiff |-> {x, y}]

IsZero(dv) == Cardinality(dv.absdiff) = 1

(* The error the first failing quantity raised, "" when none did *)
RECURSIVE FirstRaised(_)
FirstRaised(xs) ==
    IF xs = << >> THEN ""
    ELSE IF Head(xs) = ZeroDivisionError THEN "ZeroDivisionError"
    ELSE IF Head(xs) = ValueError THEN "ValueError"
    ELSE FirstRaised(Tail(xs))

(* `sqrt(mu * (2/r - 1/a))` *)
VisViva(r, a, mu) ==
    Sqrt(QMul(mu, QSub(QDiv(Q(2, 1), r), QDiv(Q(1, 1), a))))

(* `sqrt(mu / r)` *)
CircularSpeed(r, mu) == Sqrt(QDiv(mu, r))

(* `pi * sqrt(a^3 / mu)`, kept by its radicand *)
HalfPeriod(a, mu) == Sqrt(QDiv(QMul(a, QMul(a, a)), mu))

(* The axis as it would be without the division by 2 *)
TransferAxisSum(r1, r2) == QAdd(r1, r2)

(* `a_t = (r1 + r2) / 2` *)
TransferAxis(r1, r2) == QDiv(QAdd(r1, r2), Q(2, 1))

(* The total as it would be with the departure burn alone *)
TotalOfDepartureOnly(dvs) == SetToBag({dvs[1]})

(* `dv_total = dv1 + dv2 (+ dv3)`: a sum is the bag of its terms *)
TotalOf(dvs) ==
    [x \in {dvs[i] : i \in DOMAIN dvs} |->
        Cardinality({i \in DOMAIN dvs : dvs[i] = x})]

hohmannTransfer(r1, r2, mu) ==
    LET a_t == TransferAxis(r1, r2)
        v1 == CircularSpeed(r1, mu)
        v2 == CircularSpeed(r2, mu)
        vt1 == VisViva(r1, a_t, mu)
        vt2 == VisViva(r2, a_t, mu)
        tof == HalfPeriod(a_t, mu)
        raised == FirstRaised(<<a_t, v1, v2, vt1, vt2, tof>>)
    IN  IF raised # ""
        THEN [ raised |-> raised, result |-> << >> ]
        ELSE [ raised |-> "",
               result |-> << [ dv1 |-> AbsDiff(vt1, v1),
                               dv2 |-> AbsDiff(v2, vt2),
                               dv_total |-> TotalOf(<<AbsDiff(vt1, v1),
                                                      AbsDiff(v2, vt2)>>),
                               tof |-> tof ] >> ]

(* The geometry check as it would be with `rb < max(r1, r2)` *)
InvalidGeometryStrict(r1, r2, rb) ==
    LET m == IF r1[1] * r2[2] >= r2[1] * r1[2] THEN r1 ELSE r2
    IN  rb[1] * m[2] < m[1] * rb[2]

(* `rb <= max(r1, r2)` *)
InvalidGeometry(r1, r2, rb) ==
    LET m == IF r1[1] * r2[2] >= r2[1] * r1[2] THEN r1 ELSE r2
    IN  rb[1] * m[2] <= m[1] * rb[2]

biellipticTransfer(r1, r2, rb, mu) ==
    IF InvalidGeometry(r1, r2, rb)
    THEN [ raised |-> "InvalidGeometryError", result |-> << >> ]
    ELSE
    LET a1 == TransferAxis(r1, rb)
        a2 == TransferAxis(rb, r2)
        d1a == VisViva(r1, a1, mu)
        d1b == CircularSpeed(r1, mu)
        d2a == VisViva(rb, a2, mu)
        d2b == VisViva(rb, a1, mu)
        d3a == CircularSpeed(r2, mu)
        d3b == VisViva(r2, a2, mu)
        t1 == HalfPeriod(a1, mu)
        t2 == HalfPeriod(a2, mu)
        raised == FirstRaised(<<a1, a2, d1a, d1b, d2a, d2b, d3a, d3b, t1, t2>>)
    IN  IF raised # ""
        THEN [ raised |-> raised, result |-> << >> ]
        ELSE [ raised |-> "",
               result |-> << [ dv1 |-> AbsDiff(d1a, d1b),
                               dv2 |-> AbsDiff(d2a, d2b),
                               dv3 |-> AbsDiff(d3a, d3b),
                               dv_total |-> TotalOf(<<AbsDiff(d1a, d1b),
                                                      AbsDiff(d2a, d2b),
                                                      AbsDiff(d3a, d3b)>>),
                               tof |-> SetToBag({t1}) (+) SetToBag({t2}) ] >> ]

(* The solver under its callers: radii and mu are drawn from small ranges *)
(* that include 0, and each call returns or raises                        *)
MaxRadius == 4

MaxApoapsis == 6

MaxMu == 2

SolverInit ==
    /\ loader = InitLoader
    /\ proc = InitProc
    /\ py = InitPy
    /\ ui = InitUi
    /\ dom = InitDom
    /\ hist = InitHist
    /\ \E r1 \in 0 .. MaxRadius, r2 \in 0 .. MaxRadius, mu \in 0 .. MaxMu :
          \/ calls = << [ kind |-> "hohmannTransfer", phase |-> "called",
                          r1 |-> Q(r1, 1), r2 |-> Q(r2, 1), rb |-> Q(0, 1),
                          mu |-> Q(mu, 1), out |-> << >> ] >>
          \/ \E rb \in 0 .. MaxApoapsis :
                calls = << [ kind |-> "biellipticTransfer", phase |-> "called",
                             r1 |-> Q(r1, 1), r2 |-> Q(r2, 1), rb |-> Q(rb, 1),
                             mu |-> Q(mu, 1), out |-> << >> ] >>

HohmannReturns ==
    /\ calls[1].kind = "hohmannTransfer" /\ calls[1].phase = "called"
    /\ calls' = << [calls[1] EXCEPT
                      !.phase = "returned",
                      !.out = << hohmannTransfer(calls[1].r1, calls[1].r2,
                                                 calls[1].mu) >>] >>
    /\ UNCHANGED <<loader, proc, py, ui, dom, hist>>

BiellipticReturns ==
    /\ calls[1].kind = "biellipticTransfer" /\ calls[1].phase = "called"
    /\ calls' = << [calls[1] EXCEPT
                      !.phase = "returned",
                      !.out = << biellipticTransfer(calls[1].r1, calls[1].r2,
                                                    calls[1].rb, calls[1].mu) >>] >>
    /\ UNCHANGED <<loader, proc, py, ui, dom, hist>>

SolverNext == HohmannReturns \/ BiellipticReturns

SolverSpec == SolverInit /\ [][SolverNext]_vars

(* The Trajectory Integrator.  A propagated state is kept as the initial   *)
(* state and the number of RK4 steps applied to it, with its time; what    *)
(* the steps compute is not evaluated.  A position of magnitude 0 is       *)
(* singular.                                                               *)
MaxStepSize == 2

MaxStepCount == 3

MaxPropagations == 2

InitialStates == {[position |-> x, velocity |-> v] : x \in 0 .. 1, v \in 0 .. 1}

(* `y_next = y + h/6 * (k1 + 2*k2 + 2*k3 + k4)`, at time t + h *)
Rk4Step(state, mu, h) ==
    [state EXCEPT !.steps = @ + 1, !.time = @ + h]

(* division by |r|^3 *)
Singular(state) == state.steps = 0 /\ state.initial.position = 0

(* The state a sequence starts from, as it would be if the integrator kept *)
(* one state for all its sequences                                         *)
FirstStateShared(gens, args) ==
    IF gens = << >>
    THEN [initial |-> args.initialState, steps |-> 0, time |-> 0]
    ELSE gens[Len(gens)].state

(* The state a sequence starts from: the initial state at t = 0 *)
FirstState(gens, args) ==
    [initial |-> args.initialState, steps |-> 0, time |-> 0]

(* propagate(initialState, mu, stepSize, stepCount): a new lazy sequence *)
propagate(gens, args) ==
    [ kind |-> "propagate", phase |-> "open", args |-> args,
      state |-> FirstState(gens, args), yielded |-> << >> ]

(* The next element of a sequence: the initial state, then stepCount       *)
(* states each one RK4 step after the one before                           *)
NextElement(g) ==
    IF g.phase # "open" THEN g
    ELSE IF g.yielded = << >>
    THEN [g EXCEPT !.yielded = <<g.state>>]
    ELSE IF Len(g.yielded) > g.args.stepCount
    THEN [g EXCEPT !.phase = "exhausted"]
    ELSE IF Singular(g.state)
    THEN [g EXCEPT !.phase = "SingularStateError"]
    ELSE LET y == Rk4Step(g.state, g.args.mu, g.args.stepSize)
         IN  [g EXCEPT !.state = y, !.yielded = Append(@, y)]

PropagateArgs ==
    [ initialState : InitialStates, mu : 1 .. MaxMu,
      stepSize : 1 .. MaxStepSize, stepCount : 0 .. MaxStepCount ]

IntegratorInit ==
    /\ loader = InitLoader
    /\ proc = InitProc
    /\ py = InitPy
    /\ ui = InitUi
    /\ dom = InitDom
    /\ hist = InitHist
    /\ \E args \in PropagateArgs : calls = << propagate(<< >>, args) >>

(* propagate is called again with the same arguments *)
PropagateAgain ==
    /\ Len(calls) < MaxPropagations
    /\ calls' = Append(calls, propagate(calls, calls[1].args))
    /\ UNCHANGED <<loader, proc, py, ui, dom, hist>>

(* A consumer asks a sequence for its next element *)
Consume ==
    \E i \in 1 .. Len(calls) :
        /\ calls[i].phase = "open"
        /\ calls' = [calls EXCEPT ![i] = NextElement(calls[i])]
        /\ UNCHANGED <<loader, proc, py, ui, dom, hist>>

IntegratorNext == PropagateAgain \/ Consume

IntegratorSpec == IntegratorInit /\ [][IntegratorNext]_vars

(* The controller over a runPython that may settle in any way: with       *)
(* undefined, with the text the script dumped for the result, with the     *)
(* text it dumped for an exception, or by rejecting                        *)
PythonYields ==
    \E i \in 1 .. Len(calls) :
       /\ calls[i].kind = "calc" /\ calls[i].phase = "called"
       /\ \A j \in 1 .. i - 1 : calls[j].phase # "called"
       /\ \E value \in { << >>,
                         << ScriptTry(py.globals).dumped >>,
                         << json_dumps([error |-> <<"Exception">>,
                                        hohmann |-> << >>, bielliptic |-> << >>,
                                        plot |-> "", body |-> ""]) >> } :
             Commit([St EXCEPT !.c[i].phase = "ran",
                               !.c[i].used = << py.globals >>,
                               !.c[i].value = value,
                               !.y.executed = @ \cup {"calc"}])

PythonRejects ==
    \E i \in 1 .. Len(calls) :
       /\ calls[i].kind = "calc" /\ calls[i].phase = "called"
       /\ \A j \in 1 .. i - 1 : calls[j].phase # "called"
       /\ Commit([St EXCEPT !.c[i].phase = "rejected",
                            !.c[i].used = << py.globals >>])

HandlerNext ==
    \/ InitializeApp
    \/ ImportResolved \/ LoadPyodideResolved
    \/ LoadPackageResolved \/ InstallResolved
    \/ FetchResolved \/ TextResolved \/ InitEnvResolved
    \/ ReadyTimerFired
    \/ TransferTypeChange \/ RbInput \/ CalculateClick
    \/ PythonYields \/ PythonRejects
    \/ RunPythonSettled

HandlerSpec == Init /\ [][HandlerNext]_vars

(* The application on a page that offers an unsupported body *)
AnyBodyNext ==
    \/ InitializeApp
    \/ ImportResolved
    \/ LoadPyodideResolved
    \/ LoadPackageResolved
    \/ InstallResolved
    \/ FetchResolved
    \/ TextResolved
    \/ InitEnvResolved
    \/ ReadyTimerFired
    \/ BodyChange
    \/ OtherBodyChange
    \/ TransferTypeChange
    \/ CalculateClick
    \/ PythonRuns
    \/ RunPythonSettled

AnyBodySpec == Init /\ [][AnyBodyNext]_vars

(* The loader under a failing environment, with further callers of load() *)
(* and onReady                                                             *)
LoaderNext ==
    \/ InitializeApp
    \/ Load
    \/ OnReady
    \/ ImportResolved
    \/ ImportRejected
    \/ LoadPyodideResolved
    \/ LoadPyodideRejected
    \/ LoadPackageResolved
    \/ LoadPackageRejected
    \/ InstallResolved
    \/ InstallRejected
    \/ FetchResolved
    \/ FetchFailed
    \/ TextResolved
    \/ TextFailed
    \/ BackoffElapsed
    \/ InitEnvResolved
    \/ InitEnvRejected

(* The loader under a failing environment, with further callers of load(), *)
(* runPython, getGlobal and setGlobal                                      *)
ApiNext ==
    \/ InitializeApp
    \/ Load
    \/ RunPython
    \/ GetGlobal
    \/ SetGlobal
    \/ ImportResolved
    \/ ImportRejected
    \/ LoadPyodideResolved
    \/ LoadPyodideRejected
    \/ LoadPackageResolved
    \/ LoadPackageRejected
    \/ InstallResolved
    \/ InstallRejected
    \/ FetchResolved
    \/ FetchFailed
    \/ TextResolved
    \/ TextFailed
    \/ BackoffElapsed
    \/ InitEnvResolved
    \/ InitEnvRejected
    \/ ReadyTimerFired
    \/ PythonRuns
    \/ RunPythonSettled

ApiSpec == Init /\ [][ApiNext]_vars

(* An await of load() that is pending settles: the network answers or     *)
(* fails, and timers fire                                                 *)
AwaitSettles ==
    \/ ImportResolved
    \/ ImportRejected
    \/ LoadPyodideResolved
    \/ LoadPyodideRejected
    \/ LoadPackageResolved
    \/ LoadPackageRejected
    \/ InstallResolved
    \/ InstallRejected
    \/ FetchResolved
    \/ FetchFailed
    \/ TextResolved
    \/ TextFailed
    \/ BackoffElapsed
    \/ InitEnvResolved
    \/ InitEnvRejected

LoaderSpec == Init /\ [][LoaderNext]_vars /\ WF_vars(AwaitSettles)

----------------------------------------------------------------------------
(* Properties of the calculation (under Spec) *)

Range(seq) == {seq[i] : i \in 1 .. Len(seq)}

(* C1: when the bi-elliptic solver call of an invocation fails            *)
(* (rb <= max(r1, r2)), the invocation completes on the success path:     *)
(* results.hohmann holds the Hohmann values, results.bielliptic is null   *)
(* and showError is not called.                                           *)
C1_BiellipticFallback ==
    [][ ( /\ Len(calls) > 0
          /\ calls[1].kind = "calc"
          /\ calls[1].phase = "ran"
          /\ calls' = Tail(calls)
          /\ ScriptTry(calls[1].used[1]).solver # << >>
          /\ ScriptTry(calls[1].used[1]).solver[1].bielliptic_failed )
        => ( /\ hist'.shown = ""
             /\ ui'.results # << >>
             /\ ui'.results[1].hohmann
                   = ScriptTry(calls[1].used[1]).dumped.obj.hohmann
             /\ ui'.results[1].bielliptic = << >> ) ]_vars

(* C2: the radii handed to the solver are in kilometres: each of r1, r2,  *)
(* rb is multiplied by AU_KM when current_body is 'sun', and passed       *)
(* unchanged when it is 'earth'.                                          *)
C2_RadiiInKm ==
    \A i \in 1 .. Len(hist.solver) :
       LET a == hist.solver[i]
           km == [r1 |-> a.r1, r2 |-> a.r2, rb |-> a.rb]
       IN  /\ a.current_body \in {"earth", "sun"}
           /\ a.current_body = "earth" => km = a.given
           /\ a.current_body = "sun" =>
                 \A f \in {"r1", "r2", "rb"} :
                    km[f] = IF a.given[f].nan THEN NaN
                            ELSE Dec(a.given[f].m * AU_KM.m, a.given[f].e + AU_KM.e)

(* A script has run for the Sun with 1 AU, 5 AU and 10 AU *)
C2_Witness ==
    /\ hist.solver # << >>
    /\ hist.solver[1].current_body = "sun"
    /\ hist.solver[1].given.r1 = Dec(1000, -3)
    /\ hist.solver[1].r1 = Dec(149598000, 0)
    /\ hist.solver[1].r2 = Dec(747990000, 0)
    /\ hist.solver[1].rb = Dec(1495980000, 0)

(* C3: after a click on a preset button the calculation runs with the     *)
(* preset's body, r1 and r2.                                              *)
C3_PresetsApply ==
    (hist.origin \in DOMAIN presets /\ hist.calc # "skipped") =>
        /\ py.globals["current_body"] = presets[hist.origin].body
        /\ py.globals["r1"] = presets[hist.origin].r1
        /\ py.globals["r2"] = presets[hist.origin].r2

(* C11: a calculation requested for a body outside {earth, sun} fails     *)
(* with the unknown-body error, which showError reports ('Calculation     *)
(* error: ...'); no results are stored for it.                            *)
C11_UnknownBodySurfaced ==
    [][ ( /\ Len(calls) > 0
          /\ calls[1].kind = "calc"
          /\ calls[1].phase = "ran"
          /\ calls' = Tail(calls)
          /\ calls[1].used[1].current_body \notin SupportedBodies )
        => ( /\ ScriptTry(calls[1].used[1]).dumped.obj.error = <<"UnknownBodyError">>
             /\ hist'.shown = "Calculation error"
             /\ ui'.results = ui.results
             /\ dom'.display = dom.display ) ]_vars

(* C12: with both results present, the info panel's savings is            *)
(* (hohmann.dv_total - bielliptic.dv_total) / hohmann.dv_total (as a      *)
(* percentage), labelled 'savings' exactly when bielliptic.dv_total <     *)
(* hohmann.dv_total and 'penalty' otherwise, also for hohmann.dv_total 0. *)
C12_SavingsLabel ==
    (dom.infoPanel.kind = "info" /\ dom.infoPanel.bielliptic # << >>) =>
        LET h == ui.results[1].hohmann[1].dv_total
            b == ui.results[1].bielliptic[1].dv_total
            shown == dom.infoPanel.bielliptic[1]
        IN  /\ shown.label \in {"savings", "penalty"}
            /\ shown.label = "savings" <=> b.n * h.d < h.n * b.d
            /\ h.n # 0 =>
                  /\ shown.savings.k = "num"
                  /\ shown.savings.n * h.n * b.d * h.d
                        = 100 * (h.n * b.d - b.n * h.d) * h.d * shown.savings.d
            /\ h.n = 0 => shown.savings.k # "num" /\ shown.label = "penalty"

(* The panel shows a bi-elliptic part for two totals of 0 *)
C12_Witness ==
    /\ dom.infoPanel.kind = "info"
    /\ dom.infoPanel.bielliptic # << >>
    /\ ui.results[1].hohmann[1].dv_total = Num(0, 1)
    /\ ui.results[1].bielliptic[1].dv_total = Num(0, 1)
    /\ dom.infoPanel.bielliptic[1].savings = JsNaN
    /\ dom.infoPanel.bielliptic[1].label = "penalty"

(* C17: every change the user makes to an input (central body, transfer   *)
(* type, r1, r2, rb) starts a calculation from the values then current, so *)
(* once no calculation is pending the stored results are the ones computed *)
(* from the current input values.                                          *)
C17_ChangeRecalculates ==
    /\ [][ (CanUse /\ Params(ui') # Params(ui)) =>
              /\ Len(calls') = Len(calls) + 1
              /\ calls'[Len(calls')].kind = "calc"
              /\ calls'[Len(calls')].params = Params(ui') ]_vars
    /\ []( (calls = << >> /\ hist.calc \in {"succeeded", "failed"}) =>
              /\ ui.results # << >>
              /\ ui.results[1] = ScriptTry(Params(ui)).dumped.obj )

(* C18: of overlapping calculateTransfer invocations each computes from   *)
(* the parameter values the controller held when it started, and once all *)
(* have completed results holds the result of the one started last (whose *)
(* parameters are the current ones, as every change starts an invocation). *)
C18_OverlappingCalculations ==
    /\ [][ \A i \in 1 .. Len(calls) :
              ( /\ i <= Len(calls')
                /\ calls[i].kind = "calc"
                /\ calls[i].phase = "called"
                /\ calls'[i].phase = "ran" )
              => calls'[i].used = << calls[i].params >> ]_vars
    /\ []( (calls = << >> /\ hist.calc \in {"succeeded", "failed"}) =>
              /\ ui.results # << >>
              /\ ScriptTry(Params(ui)).dumped.obj = ui.results[1] )

(* C19: whatever r1, r2 and rb the controller holds, and whether the      *)
(* calculation succeeds or raises, the script's value is a string that    *)
(* JSON.parse accepts.                                                     *)
C19_ScriptYieldsJson ==
    \A i \in 1 .. Len(calls) :
        (calls[i].kind = "calc" /\ calls[i].phase = "ran") =>
            /\ calls[i].value # << >>
            /\ ~calls[i].value[1].nonfinite

(* What runPython settled with makes the calculation fail *)
Failure(call) ==
    \/ call.phase = "rejected"
    \/ call.value = << >>
    \/ call.value[1].nonfinite
    \/ call.value[1].obj.error # << >>

(* C20: calculateTransfer never rejects; on every failure (an error       *)
(* object, an unparseable result, a throw of runPython or setGlobal)      *)
(* showError is called and results keeps its prior value.                  *)
C20_FailuresShown ==
    [][ /\ hist'.calc # hist.calc =>
              hist'.calc \in {"skipped", "started", "failed", "succeeded"}
        /\ ( /\ Len(calls) > 0
             /\ calls[1].kind = "calc"
             /\ calls[1].phase \in {"ran", "rejected"}
             /\ calls' = Tail(calls) ) =>
               IF Failure(calls[1])
               THEN /\ hist'.calc = "failed"
                    /\ hist'.shown # ""
                    /\ dom'.infoPanel = [kind |-> "error", text |-> hist'.shown]
                    /\ ui'.results = ui.results
               ELSE /\ hist'.calc = "succeeded"
                    /\ ui'.results = << calls[1].value[1].obj >> ]_vars

(* A calculation has failed on an error object while results held the     *)
(* result of an earlier one                                                *)
C20_Witness ==
    /\ ui.results # << >>
    /\ hist.calc = "failed"
    /\ hist.shown = "Calculation error"
    /\ dom.infoPanel.kind = "error"

(* C21: a calculateTransfer invocation made while the loader is not ready, *)
(* whatever triggers it, returns without setting a Python global, running  *)
(* Python code, changing results or showing an error.                      *)
C21_NotReadySkips ==
    [][ (~loader.isReady /\ hist'.origin # hist.origin) =>
            /\ hist'.calc = "skipped"
            /\ py' = py
            /\ calls' = calls
            /\ ui'.results = ui.results
            /\ hist'.shown = ""
            /\ dom'.infoPanel = dom.infoPanel ]_vars

(* Ctrl/Cmd + Enter was pressed while Pyodide was loading *)
C21_Witness ==
    /\ ~loader.isReady
    /\ loader.isLoading
    /\ hist.origin = "shortcut"
    /\ hist.calc = "skipped"
    /\ py.globals = InitPy.globals

(* A radius is in the display unit of the body: in AU it is no more than   *)
(* the largest radius the sun's sliders offer, in km it is no less than    *)
(* the smallest radius Earth's configuration holds                         *)
InUnitOf(body, v) ==
    /\ ~v.nan
    /\ IF body = "sun"
       THEN Leq(v, bodyConfigs("sun").r2.max)
       ELSE Leq(bodyConfigs("earth").r1Default, v)

(* C22: in every state r1 and r2 are in the display unit of currentBody    *)
(* (AU for sun, km otherwise); a change of body through the selector or a  *)
(* preset leaves no radius in the previous body's unit.                    *)
C22_RadiiInBodyUnit ==
    /\ InUnitOf(ui.currentBody, ui.r1)
    /\ InUnitOf(ui.currentBody, ui.r2)
    /\ dom.sliderBody = ConfigKey(ui.currentBody)

(* A preset changed the body to sun and a calculation started from it *)
C22_Witness ==
    /\ ui.currentBody = "sun"
    /\ hist.origin = "earth_jupiter"
    /\ hist.calc = "started"
    /\ InUnitOf("sun", ui.r1)
    /\ ~InUnitOf("earth", ui.r1)

Returned(kind) ==
    /\ calls # << >>
    /\ calls[1].kind = kind /\ calls[1].phase = "returned"
    /\ calls[1].r1[1] > 0 /\ calls[1].r2[1] > 0 /\ calls[1].mu[1] > 0

(* C13: biellipticTransfer fails with InvalidGeometryError for every rb   *)
(* <= max(r1, r2), equality included, and returns a result for every rb   *)
(* > max(r1, r2) with r1, r2, mu > 0.                                      *)
C13_BiellipticGeometry ==
    ( /\ calls # << >>
      /\ calls[1].kind = "biellipticTransfer"
      /\ calls[1].phase = "returned" ) =>
        LET c == calls[1]
            outside == c.rb[1] > c.r1[1] /\ c.rb[1] > c.r2[1]
        IN  /\ ~outside => c.out[1].raised = "InvalidGeometryError"
            /\ (outside /\ c.r1[1] > 0 /\ c.r2[1] > 0 /\ c.mu[1] > 0) =>
                  /\ c.out[1].raised = ""
                  /\ c.out[1].result # << >>

(* A call with rb equal to the larger of two different positive radii has *)
(* failed                                                                  *)
C13_Witness ==
    /\ Returned("biellipticTransfer")
    /\ calls[1].r1 # calls[1].r2
    /\ calls[1].rb = (IF calls[1].r1[1] > calls[1].r2[1]
                      THEN calls[1].r1 ELSE calls[1].r2)
    /\ calls[1].out[1].raised = "InvalidGeometryError"

C15_EqualRadii ==
    (Returned("hohmannTransfer") /\ calls[1].r1 = calls[1].r2) =>
        LET c == calls[1]
        IN  /\ c.out[1].raised = ""
            /\ c.out[1].result # << >>
            /\ IsZero(c.out[1].result[1].dv1)
            /\ IsZero(c.out[1].result[1].dv2)
            /\ c.out[1].result[1].tof
                 = Q(c.r1[1] * c.r1[1] * c.r1[1] * c.mu[2],
                     c.r1[2] * c.r1[2] * c.r1[2] * c.mu[1])

(* A call with equal radii above 1 has returned *)
C15_Witness ==
    /\ Returned("hohmannTransfer")
    /\ calls[1].r1 = calls[1].r2
    /\ calls[1].r1[1] > 1
    /\ calls[1].out[1].raised = ""
    /\ IsZero(calls[1].out[1].result[1].dv1)

(* C16: for r1, r2, mu > 0, hohmannTransfer(r1, r2, mu).dv_total equals   *)
(* hohmannTransfer(r2, r1, mu).dv_total.                                   *)
C16_DirectionIndependent ==
    Returned("hohmannTransfer") =>
        LET c == calls[1]
            back == hohmannTransfer(c.r2, c.r1, c.mu)
        IN  /\ c.out[1].raised = "" /\ back.raised = ""
            /\ c.out[1].result[1].dv_total = back.result[1].dv_total

(* A call between two different radii has returned a total of two burns   *)
(* that are not 0                                                          *)
C16_Witness ==
    /\ Returned("hohmannTransfer")
    /\ calls[1].r1 # calls[1].r2
    /\ calls[1].out[1].raised = ""
    /\ ~IsZero(calls[1].out[1].result[1].dv1)
    /\ ~IsZero(calls[1].out[1].result[1].dv2)
    /\ BagCardinality(calls[1].out[1].result[1].dv_total) = 2

----------------------------------------------------------------------------
(* Properties of the loader (under LoaderSpec; C10 under ApiSpec) *)

Canon ==
    << "pyodide", "numpy", "matplotlib", "constants.py", "orbital_mechanics.py",
       "numerical_integration.py", "visualization.py", "environment", "ready" >>

Pos(x) == CHOOSE i \in 1 .. Len(Canon) : Canon[i] = x

(* The step the running load() is waiting for *)
InFlight ==
    CASE proc.pc \in {"import", "loadPyodide"} -> "pyodide"
      [] proc.pc = "loadPackage" -> "numpy"
      [] proc.pc = "install" -> packages[proc.pkg]
      [] proc.pc \in {"fetch", "text", "sleep"} -> modules[proc.mod]
      [] OTHER -> "environment"

(* C4: in every load() run the steps complete in the order runtime,       *)
(* numpy, matplotlib, the modules, environment; no step is waited for     *)
(* before the ones ahead of it are over; isReady is set and the ready     *)
(* callbacks are called only after all of them.                           *)
C4_StepsInOrder ==
    LET steps == hist.steps
    IN  /\ \A i, j \in 1 .. Len(steps) : i < j => Pos(steps[i]) < Pos(steps[j])
        /\ proc.pc # "idle" =>
              /\ \A i \in 1 .. Len(steps) : Pos(steps[i]) < Pos(InFlight)
              /\ \A k \in 1 .. 3 : k < Pos(InFlight) => Canon[k] \in Range(steps)
        /\ proc.pc = "initEnv" => steps = SubSeq(Canon, 1, 7)
        /\ loader.isReady => steps = Canon
        /\ \A c \in CallbackIds : hist.invoked[c] > 0 => loader.isReady
        /\ py.installed \in {<< >>, <<"numpy">>, <<"numpy", "matplotlib">>}
        /\ py.installed # << >> => py.micropip /\ py.instances > 0
        /\ py.fs # {} => py.installed = packages
        /\ py.initialised => py.fs = requiredModules

(* A second load() run got ready, its callbacks called *)
C4_Witness ==
    /\ loader.isReady
    /\ hist.runs = 2
    /\ hist.invoked[AppCallback] = 1
    /\ hist.steps = Canon

(* C5: loadPythonModules rejects exactly when a module failed all its     *)
(* attempts; when it resolves, loadedModules holds the four names and     *)
(* failedModules is empty; load() resolves only with all four written.    *)
C5_AllModulesOrReject ==
    /\ hist.modulesRun = "rejected" =>
          \E m \in requiredModules : hist.fails[m] = maxRetries
    /\ hist.modulesRun = "resolved" =>
          /\ \A m \in requiredModules : hist.fails[m] < maxRetries
          /\ loader.loadedModules = requiredModules
          /\ loader.failedModules = << >>
          /\ py.fs = requiredModules
    /\ hist.run = "resolved" => hist.modulesRun = "resolved"
    /\ loader.isReady => areModulesLoaded(loader) /\ py.fs = requiredModules

(* load() resolved although one module needed all three attempts *)
C5_Witness ==
    /\ hist.run = "resolved"
    /\ \E m \in requiredModules : hist.fails[m] = maxRetries - 1

FetchBounds ==
    /\ \A m \in requiredModules : hist.fetches[m] <= maxRetries
    /\ \A m \in requiredModules : hist.fetches[m] <= hist.fails[m] + 1
    /\ ~hist.fetchAfterOk
    /\ hist.fetches["constants.py"] + hist.fetches["orbital_mechanics.py"]
         + hist.fetches["numerical_integration.py"]
         + hist.fetches["visualization.py"] <= Len(modules) * maxRetries
    /\ hist.modulesRun \in {"resolved", "rejected"} =>
          \A m \in requiredModules : hist.fetches[m] >= 1

(* C6: in one loadPythonModules run each module is fetched at least once  *)
(* and at most maxRetries times, never again after it succeeded; the run  *)
(* makes at most 12 fetches and ends.                                     *)
C6_BoundedRetries ==
    /\ []FetchBounds
    /\ (hist.modulesRun = "running") ~> (hist.modulesRun # "running")

(* A run ended in which a module was fetched three times and then loaded *)
C6_Witness ==
    /\ hist.modulesRun = "resolved"
    /\ \E m \in requiredModules : hist.fetches[m] = maxRetries

(* C7: a load() call made while a load() is in progress is rejected and   *)
(* changes nothing: isLoading stays true, no progress event is emitted    *)
(* and the load in progress goes on.                                      *)
C7_BusyLoadRejected ==
    [][ (hist'.guarded = "rejected" /\ hist.guarded # "rejected") =>
          /\ loader.isLoading
          /\ loader' = loader
          /\ proc' = proc
          /\ py' = py
          /\ hist'.progress = hist.progress
          /\ hist'.run = "pending" ]_vars

(* The first load() got ready after a second call was rejected *)
C7_Witness ==
    /\ hist.guarded = "rejected"
    /\ hist.runs = 1
    /\ hist.run = "resolved"
    /\ loader.isReady

(* C8: once isReady is true it stays true, and a further load() call      *)
(* returns the same instance without a loading step, a progress event, a  *)
(* second call of a ready callback or a change of loadedModules.          *)
C8_ReadyIsFinal ==
    [][ loader.isReady =>
          /\ loader'.isReady
          /\ ~loader'.isLoading
          /\ loader'.pyodide = loader.pyodide
          /\ loader'.loadedModules = loader.loadedModules
          /\ proc' = proc
          /\ hist'.runs = hist.runs
          /\ hist'.steps = hist.steps
          /\ hist'.progress = hist.progress
          /\ \A c \in CallbackIds :
                hist.invoked[c] > 0 => hist'.invoked[c] = hist.invoked[c]
          /\ hist'.guarded = "returned" => hist'.guardedValue = loader.pyodide ]_vars

(* A load() call after readiness returned the instance *)
C8_Witness ==
    /\ loader.isReady
    /\ hist.guarded = "returned"
    /\ hist.guardedValue = loader.pyodide
    /\ loader.pyodide > 0

(* C9: once a load() call has succeeded, every callback handed to         *)
(* onReady has been called exactly once with the instance: the ones       *)
(* registered before readiness by the load() that got ready, the ones     *)
(* registered after it by onReady itself, without being queued.           *)
C9_CallbacksOnce ==
    (hist.run = "resolved" \/ hist.guarded = "returned") =>
        /\ \A c \in hist.registered :
              /\ hist.invoked[c] = 1
              /\ hist.invokedWith[c] = loader.pyodide
        /\ Range(loader.onReadyCallbacks) = hist.queuedOnce

(* C10: while isReady is false, runPython, getGlobal and setGlobal fail   *)
(* and leave the globals and the interpreter alone: no code has run       *)
(* through the loader and no global is set.                               *)
C10_NotReadyNoPython ==
    ~loader.isReady =>
        /\ hist.api \in {"none", "not ready"}
        /\ DOMAIN py.globals = {}
        /\ py.executed \subseteq {"initCode"}
        /\ calls = << >>

(* A runtime exists, a call was refused *)
C10_Witness ==
    /\ ~loader.isReady
    /\ py.instances > 0
    /\ hist.api = "not ready"

====
